---- MODULE Spec2Model ----
(***************************************************************************)
(* Camera controllers of src/main.rs (orbit, zoom, draw_cursor) as a state *)
(* machine driven by the engine's frame loop.                              *)
(*                                                                         *)
(* Numbers are fixed point:                                                *)
(*   angles            1 unit = 0.0001 rad                                 *)
(*   sines, slopes     1 unit = 0.0001                                     *)
(*   world lengths     1 unit = 0.01 world units                           *)
(*   orthographic scale 1 unit = 0.001                                     *)
(*   mouse motion, cursor positions: pixels; scroll: scroll lines          *)
(***************************************************************************)
EXTENDS Integers, Sequences, FiniteSets, TLC

\* ------------------------------------------------------------------ bounds

\* Frames the engine's loop is followed for.
MaxTicks == 2

\* ------------------------------------------------------------- arithmetic

\* Fixed-point scale of sines, cosines and slopes.
S == 10000

Abs(n) == IF n < 0 THEN -n ELSE n

\* Division rounding toward zero, as a float-to-fixed conversion would.
Quot(a, b) == IF (a < 0) = (b < 0) THEN Abs(a) \div Abs(b) ELSE -(Abs(a) \div Abs(b))

\* a * c / S for a sine or slope c, and a * b / d, each without a product
\* that leaves 32 bits.
MulS(a, c) == Quot(a, S) * c + Quot((a - Quot(a, S) * S) * c, S)
MulDiv(a, b, d) == a * Quot(b, d) + Quot(a * (b - Quot(b, d) * d), d)

\* std::f32::consts::PI and FRAC_PI_2 in angle units.
PI == 31416
FRAC_PI_2 == 15708

\* f32::clamp
Clamp(v, lo, hi) == IF v < lo THEN lo ELSE IF v > hi THEN hi ELSE v

\* sin of an angle in [0, FRAC_PI_2], by its Taylor polynomial in Horner form.
\* x2 is the angle's square.
Horner(x, x2) ==
    (x * (S - ((x2 * (S - ((x2 * (S - ((x2 * (S - (x2 \div 72))) \div (42 * S))))
        \div (20 * S)))) \div (6 * S)))) \div S

SinQ(x) == Horner(x, (x * x) \div S)

\* An angle brought into (-PI, PI].
WrapPi(a) == IF (a + PI) % (2 * PI) = 0 THEN PI ELSE ((a + PI) % (2 * PI)) - PI

\* sin of an angle in [0, PI], by sin(PI - x) = sin x.
SinH(m) == IF m > FRAC_PI_2 THEN SinQ(PI - m) ELSE SinQ(m)

\* sin of an angle in (-PI, PI], by sin(-x) = -sin x.
SinW(w) == IF w < 0 THEN -SinH(-w) ELSE SinH(w)

\* f32::sin and f32::cos, scaled by S.
Sin(a) == SinW(WrapPi(a))

Cos(a) == Sin(a + FRAC_PI_2)

\* f32::tan, scaled by S (the angle is in (0, FRAC_PI_2)).
Tan(a) == Quot(Sin(a) * S, Cos(a))

\* ---------------------------------------------------------------- vectors

Vec3(x, y, z) == [x |-> x, y |-> y, z |-> z]
Vec2(x, y) == [x |-> x, y |-> y]

Add3(a, b) == Vec3(a.x + b.x, a.y + b.y, a.z + b.z)
Sub3(a, b) == Vec3(a.x - b.x, a.y - b.y, a.z - b.z)
Dot3(a, b) == a.x * b.x + a.y * b.y + a.z * b.z
Add2(a, b) == Vec2(a.x + b.x, a.y + b.y)

Vec3ZERO == Vec3(0, 0, 0)
Vec3Y == Vec3(0, 1, 0)

\* ------------------------------------------------- engine types and calls

\* Transform / GlobalTransform: a translation and a rotation. A rotation (unit
\* quaternion) is held by its YXZ Euler angles, yaw in (-PI, PI], pitch in
\* (-FRAC_PI_2, FRAC_PI_2): the angles to_euler reads back from it.
Transform(t, r) == [translation |-> t, rotation |-> r]

\* Quat::from_euler(EulerRot::YXZ, yaw, pitch, roll)
FromEuler(yaw, pitch, roll) == [yaw |-> WrapPi(yaw), pitch |-> pitch, roll |-> WrapPi(roll)]

\* Quat::to_euler(EulerRot::YXZ): (yaw, pitch, roll)
ToEuler(q) == <<q.yaw, q.pitch, q.roll>>

\* rotation * v: roll about Z, then pitch about X, then yaw about Y.
\* c and s are the angle's cosine and sine.
RotateZ(v, c, s) == Vec3(MulS(v.x, c) - MulS(v.y, s), MulS(v.x, s) + MulS(v.y, c), v.z)
RotateX(v, c, s) == Vec3(v.x, MulS(v.y, c) - MulS(v.z, s), MulS(v.y, s) + MulS(v.z, c))
RotateY(v, c, s) == Vec3(MulS(v.x, c) + MulS(v.z, s), v.y, MulS(v.z, c) - MulS(v.x, s))

Rotate(q, v) ==
    RotateY(RotateX(RotateZ(v, Cos(q.roll), Sin(q.roll)), Cos(q.pitch), Sin(q.pitch)),
            Cos(q.yaw), Sin(q.yaw))

\* Transform::forward(): the rotation applied to -Z, a direction scaled by S.
Forward(tr) == Rotate(tr.rotation, Vec3(0, 0, -S))

\* direction * distance, a direction scaled by S times a length.
Along(dir, dist) == Vec3(MulS(dist, dir.x), MulS(dist, dir.y), MulS(dist, dir.z))

\* The window's logical size in pixels (the engine's default window).
WindowResolution == [width |-> 1280, height |-> 720]

\* The ground entity's GlobalTransform: spawned with the default Transform.
Ground == [translation |-> Vec3ZERO, up |-> Vec3Y]

\* Camera::viewport_to_world(global_transform, viewport_position): a ray, or
\* an error while the camera holds no computed viewport. The camera's computed
\* projection is the one the engine took from Projection after the last frame.
\* The cursor's place relative to the viewport's centre, x right and y up, in
\* half pixels.
Centred(pos) == Vec2(2 * pos.x - WindowResolution.width, WindowResolution.height - 2 * pos.y)

\* A perspective camera's view-space direction through c, th the tangent of
\* half the field of view.
ViewSlope(c, th) ==
    Vec3(Quot(c.x * th, WindowResolution.height), Quot(c.y * th, WindowResolution.height), -S)

\* An orthographic camera's view-space origin through c: a pixel is scale
\* world units wide.
ViewOffset(c, scale) == Vec3(Quot(c.x * scale, 20), Quot(c.y * scale, 20), 0)

\* The ray leaves the camera's position for a perspective camera (the near
\* plane, where the engine puts the origin, lies on the same line). Any
\* projection that is not orthographic is taken to have the perspective
\* frustum of cam.fov.
ViewportToWorld(cam, gt, pos) ==
    IF ~cam.target_info
    THEN [ok |-> FALSE, origin |-> Vec3ZERO, direction |-> Vec3ZERO]
    ELSE IF cam.kind = "Orthographic"
    THEN [ok |-> TRUE,
          origin |-> Add3(gt.translation,
                          Rotate(gt.rotation, ViewOffset(Centred(pos), cam.scale))),
          direction |-> Rotate(gt.rotation, Vec3(0, 0, -S))]
    ELSE [ok |-> TRUE,
          origin |-> gt.translation,
          direction |-> Rotate(gt.rotation, ViewSlope(Centred(pos), Tan(cam.fov \div 2)))]

\* Ray3d::intersect_plane(plane_origin, InfinitePlane3d::new(normal)): the
\* distance along the ray as the ratio num / den, or none when the ray is
\* parallel to the plane or the plane lies behind the ray's origin.
Distance(num, den) ==
    [some |-> den # 0 /\ num # 0 /\ ((num < 0) = (den < 0)), num |-> num, den |-> den]

IntersectPlane(ray, plane_origin, normal) ==
    Distance(Dot3(Sub3(plane_origin, ray.origin), normal), Dot3(normal, ray.direction))

\* Ray3d::get_point(distance)
GetPoint(ray, d) ==
    Add3(ray.origin, Vec3(MulDiv(ray.direction.x, d.num, d.den),
                          MulDiv(ray.direction.y, d.num, d.den),
                          MulDiv(ray.direction.z, d.num, d.den)))

\* --------------------------------------------------------------- program

\* Option<Vec2>
None == [some |-> FALSE, value |-> Vec2(0, 0)]
Some(v) == [some |-> TRUE, value |-> v]

\* CameraSettings::default()
CameraSettingsDefault ==
    [orbit_distance |-> 2000,
     pitch_speed |-> 100,
     yaw_speed |-> 100,
     should_focus_at |-> Vec3ZERO,
     orthographic_viewport_height |-> 500,
     orthographic_zoom_range |-> [start |-> 100, end |-> 10000],
     orthographic_zoom_speed |-> 200,
     perspective_zoom_range |-> [start |-> PI \div 20, end |-> PI - 2000],
     perspective_zoom_speed |-> 500]

\* The camera setup spawns: Transform::from_xyz(15.0, 5.0, 15.0)
\* .looking_at(Vec3::ZERO, Vec3::Y). Looking from (15, 5, 15) at the origin is
\* yaw PI / 4, pitch -atan(5 / (15 sqrt 2)) = -0.2315 rad, no roll.
SetupCameraTransform == Transform(Vec3(1500, 500, 1500), FromEuler(PI \div 4, -2315, 0))

\* The Projection component Camera3d brings: the variant's default field
\* values (scale 1.0, field of view PI / 4).
ProjectionDefault(kind) == [kind |-> kind, scale |-> 1000, fov |-> PI \div 4]

\* The variants zoom matches on: the two it handles and any other.
ProjectionKinds == {"Perspective", "Orthographic", "Custom"}

\* const PITCH_LIMIT: f32 = FRAC_PI_2 - 0.01;
PITCH_LIMIT == FRAC_PI_2 - 100

\* Mutant: the pitch is left unclamped.
PitchUnclamped(pitch) == pitch

\* (pitch + delta_pitch).clamp(-PITCH_LIMIT, PITCH_LIMIT)
PitchClamp(pitch) == Clamp(pitch, -PITCH_LIMIT, PITCH_LIMIT)

\* should_focus_at - forward() * orbit_distance, as orbit and draw_cursor
\* both assign it to the camera's translation.
OrbitPosition(cs, tr) == Sub3(cs.should_focus_at, Along(Forward(tr), cs.orbit_distance))

\* orbit's body while the middle button is pressed.
\* The camera's translation recomputed once its rotation is set.
Reposition(cs, rotated) == [rotated EXCEPT !.translation = OrbitPosition(cs, rotated)]

\* orbit's new rotation from the old one's angles e = (yaw, pitch, roll).
OrbitRotation(e, cs, motion) ==
    FromEuler(e[1] + motion.x * cs.yaw_speed,
              PitchClamp(e[2] + motion.y * cs.pitch_speed),
              e[3])

\* Mutant: the translation is recomputed before the rotation is set, from the
\* old forward direction.
OrbitUpdateStale(ct, cs, motion) ==
    [Reposition(cs, ct) EXCEPT !.rotation = OrbitRotation(ToEuler(ct.rotation), cs, motion)]

OrbitUpdate(ct, cs, motion) ==
    Reposition(cs, [ct EXCEPT !.rotation = OrbitRotation(ToEuler(ct.rotation), cs, motion)])

\* Mutant: orbit rotates the camera and leaves its translation alone.
OrbitRotateOnly(ct, cs, buttons, motion) ==
    IF buttons.middle
    THEN [ct EXCEPT !.rotation = OrbitRotation(ToEuler(ct.rotation), cs, motion)]
    ELSE ct

\* orbit: the camera transform it leaves.
Orbit(ct, cs, buttons, motion) ==
    IF buttons.middle THEN OrbitUpdate(ct, cs, motion) ELSE ct

\* Mutant: the scaled value is not clamped.
OrthographicZoomUnclamped(scale, cs, wheel) ==
    Quot(scale * (1000 + (-wheel * cs.orthographic_zoom_speed)), 1000)

\* zoom's Orthographic arm: the new scale.
OrthographicZoom(scale, cs, wheel) ==
    Clamp(Quot(scale * (1000 + (-wheel * cs.orthographic_zoom_speed)), 1000),
          cs.orthographic_zoom_range.start, cs.orthographic_zoom_range.end)

\* Mutant: the scroll delta is not negated.
PerspectiveZoomOut(fov, cs, wheel) ==
    Clamp(fov + (wheel * cs.perspective_zoom_speed),
          cs.perspective_zoom_range.start, cs.perspective_zoom_range.end)

\* zoom's Perspective arm: the new field of view.
PerspectiveZoom(fov, cs, wheel) ==
    Clamp(fov + (-wheel * cs.perspective_zoom_speed),
          cs.perspective_zoom_range.start, cs.perspective_zoom_range.end)

\* Mutant: both fields are zoomed, whichever variant is active.
ZoomBoth(proj, cs, wheel) ==
    [proj EXCEPT !.scale = OrthographicZoom(proj.scale, cs, wheel),
                 !.fov = PerspectiveZoom(proj.fov, cs, wheel)]

\* zoom: the projection it leaves.
Zoom(proj, cs, wheel) ==
    CASE proj.kind = "Orthographic" ->
            [proj EXCEPT !.scale = OrthographicZoom(proj.scale, cs, wheel)]
      [] proj.kind = "Perspective" ->
            [proj EXCEPT !.fov = PerspectiveZoom(proj.fov, cs, wheel)]
      [] OTHER -> proj

\* The circle draw_cursor hands to gizmos: its centre just above the plane.
Circle(point) == Add3(point, Ground.up)

\* What draw_cursor leaves: the camera transform, the settings, the gizmos,
\* and the path it took through its returns.
Outcome(ct, cs, gz, path) ==
    [camera_transform |-> ct, camera_settings |-> cs, gizmos |-> gz, path |-> path]

\* camera_settings.should_focus_at -= camera_motion
Refocus(cs, camera_motion) ==
    [cs EXCEPT !.should_focus_at = Sub3(cs.should_focus_at, camera_motion)]

\* draw_cursor's left-button arm once both rays hit the ground plane and the
\* focus point has moved: the camera follows it.
Pan(ct, focused) ==
    Outcome([ct EXCEPT !.translation = OrbitPosition(focused, ct)], focused, {}, "pan")

\* draw_cursor from its second ray on, the left button pressed.
DrawCursorDrag(ct, cs, gz, point, ray2, distance2) ==
    IF ~ray2.ok THEN Outcome(ct, cs, gz, "no_ray2")
    ELSE IF ~distance2.some THEN Outcome(ct, cs, gz, "no_hit2")
    ELSE [Pan(ct, Refocus(cs, Sub3(GetPoint(ray2, distance2), point))) EXCEPT !.gizmos = gz]

\* Mutant: the circle is drawn before the left button is looked at.
DrawCursorHitCircleFirst(ct, cs, gz, cam, gt, pos2, buttons, ray, distance) ==
    IF ~distance.some THEN Outcome(ct, cs, gz, "no_hit")
    ELSE IF buttons.left
    THEN DrawCursorDrag(ct, cs, gz \cup {Circle(GetPoint(ray, distance))},
                        GetPoint(ray, distance), ViewportToWorld(cam, gt, pos2),
                        IntersectPlane(ViewportToWorld(cam, gt, pos2),
                                       Ground.translation, Ground.up))
    ELSE Outcome(ct, cs, gz \cup {Circle(GetPoint(ray, distance))}, "circle")

\* draw_cursor from the first intersection on.
DrawCursorHit(ct, cs, gz, cam, gt, pos2, buttons, ray, distance) ==
    IF ~distance.some THEN Outcome(ct, cs, gz, "no_hit")
    ELSE IF buttons.left
    THEN DrawCursorDrag(ct, cs, gz, GetPoint(ray, distance), ViewportToWorld(cam, gt, pos2),
                        IntersectPlane(ViewportToWorld(cam, gt, pos2),
                                       Ground.translation, Ground.up))
    ELSE Outcome(ct, cs, gz \cup {Circle(GetPoint(ray, distance))}, "circle")

\* draw_cursor from its first ray on.
DrawCursorRay(ct, cs, gz, cam, gt, pos2, buttons, ray) ==
    IF ~ray.ok THEN Outcome(ct, cs, gz, "no_ray")
    ELSE DrawCursorHit(ct, cs, gz, cam, gt, pos2, buttons, ray,
                       IntersectPlane(ray, Ground.translation, Ground.up))

\* Mutant: the left button is not looked at, every hit pans.
DrawCursorAlwaysPan(ct, cs, gz, cam, gt, cursor, buttons, motion) ==
    IF ~cursor.some THEN Outcome(ct, cs, gz, "no_cursor")
    ELSE DrawCursorRay(ct, cs, gz, cam, gt, Add2(cursor.value, motion),
                       [buttons EXCEPT !.left = TRUE],
                       ViewportToWorld(cam, gt, cursor.value))

\* draw_cursor.
DrawCursor(ct, cs, gz, cam, gt, cursor, buttons, motion) ==
    IF ~cursor.some THEN Outcome(ct, cs, gz, "no_cursor")
    ELSE DrawCursorRay(ct, cs, gz, cam, gt, Add2(cursor.value, motion), buttons,
                       ViewportToWorld(cam, gt, cursor.value))

\* ----------------------------------------------------------------- state

VARIABLES
    camera_transform,   \* the camera entity's Transform
    global_transform,   \* its GlobalTransform, propagated after each frame
    camera_settings,    \* the CameraSettings resource
    projection,         \* the camera entity's Projection
    camera,             \* its Camera: the computed viewport and projection
    window,             \* the Window: cursor_position
    mouse_buttons,      \* ButtonInput<MouseButton>: left and middle pressed
    mouse_motion,       \* AccumulatedMouseMotion.delta
    mouse_wheel_input,  \* AccumulatedMouseScroll.delta.y
    gizmos,             \* the circles drawn this frame
    pending,            \* the Update systems still to run this frame
    tick,               \* the frame's number
    pre,                \* transform, settings and projection at the frame's start
    prev_pan            \* the frame before, when all it did was pan

vars == <<camera_transform, global_transform, camera_settings, projection, camera,
          window, mouse_buttons, mouse_motion, mouse_wheel_input, gizmos, pending,
          tick, pre, prev_pan>>

inputs == <<window, mouse_buttons, mouse_motion, mouse_wheel_input>>

\* The systems main adds to Update, in no stated order.
Systems == {"orbit", "zoom", "draw_cursor"}

\* The inputs a frame may bring.
Buttons == [left : BOOLEAN, middle : BOOLEAN]
Motions == {Vec2(100, 100), Vec2(-100, -100)}
Wheels == {-30, 0, 8}
Cursors == {None, Some(Vec2(540, 360)), Some(Vec2(640, 460))}

NoPan == [some |-> FALSE, focus |-> Vec3ZERO, cursor |-> None, motion |-> Vec2(0, 0)]

Snapshot(ct, cs, proj) ==
    [camera_transform |-> ct, camera_settings |-> cs, projection |-> proj]

\* The engine reads the frame's inputs before Update runs.
ReadInputs ==
    /\ window' \in [cursor_position : Cursors]
    /\ mouse_buttons' \in Buttons
    /\ mouse_motion' \in Motions
    /\ mouse_wheel_input' \in Wheels

\* App::new() ... init_resource, Startup setup: the state an Update finds
\* before any input has had an effect. PostStartup has propagated the
\* Transform. The camera's viewport is computed in a frame's PostUpdate: the
\* first Update finds none, and an Update after idle frames finds it. The
\* Projection variant is chosen outside these systems: zoom meets any of them.
Init ==
    /\ camera_transform = SetupCameraTransform
    /\ global_transform = SetupCameraTransform
    /\ camera_settings = CameraSettingsDefault
    /\ projection \in {ProjectionDefault(k) : k \in ProjectionKinds}
    /\ camera \in {[target_info |-> t, kind |-> projection.kind,
                   scale |-> projection.scale, fov |-> projection.fov] : t \in BOOLEAN}
    /\ window \in [cursor_position : Cursors]
    /\ mouse_buttons \in Buttons
    /\ mouse_motion \in Motions
    /\ mouse_wheel_input \in Wheels
    /\ gizmos = {}
    /\ pending = Systems
    /\ tick = 1
    /\ pre = Snapshot(camera_transform, camera_settings, projection)
    /\ prev_pan = NoPan

\* The orbit system runs.
OrbitSystem ==
    /\ "orbit" \in pending
    /\ pending' = pending \ {"orbit"}
    /\ camera_transform' = Orbit(camera_transform, camera_settings, mouse_buttons, mouse_motion)
    /\ UNCHANGED <<global_transform, camera_settings, projection, camera, inputs,
                   gizmos, tick, pre, prev_pan>>

\* The zoom system runs.
ZoomSystem ==
    /\ "zoom" \in pending
    /\ pending' = pending \ {"zoom"}
    /\ projection' = Zoom(projection, camera_settings, mouse_wheel_input)
    /\ UNCHANGED <<camera_transform, global_transform, camera_settings, camera, inputs,
                   gizmos, tick, pre, prev_pan>>

\* The draw_cursor system runs.
DrawCursorSystem ==
    /\ "draw_cursor" \in pending
    /\ pending' = pending \ {"draw_cursor"}
    /\ \E r \in {DrawCursor(camera_transform, camera_settings, gizmos, camera,
                            global_transform, window.cursor_position, mouse_buttons,
                            mouse_motion)} :
           /\ camera_transform' = r.camera_transform
           /\ camera_settings' = r.camera_settings
           /\ gizmos' = r.gizmos
    /\ UNCHANGED <<global_transform, projection, camera, inputs, tick, pre, prev_pan>>

\* The path draw_cursor takes in this frame: it reads only what no Update
\* system writes (the GlobalTransform, the computed camera, the inputs).
CursorPath ==
    DrawCursor(pre.camera_transform, pre.camera_settings, {}, camera, global_transform,
               window.cursor_position, mouse_buttons, mouse_motion).path

\* The frame ends once every Update system has run: PostUpdate propagates the
\* Transform to the GlobalTransform and recomputes the camera from the window
\* and the Projection, the gizmos are drawn and cleared, and the next frame
\* reads its inputs.
FrameEnd ==
    /\ pending = {}
    /\ tick < MaxTicks
    /\ tick' = tick + 1
    /\ pending' = Systems
    /\ global_transform' = camera_transform
    /\ camera' = [target_info |-> TRUE, kind |-> projection.kind,
                  scale |-> projection.scale, fov |-> projection.fov]
    /\ gizmos' = {}
    /\ ReadInputs
    /\ pre' = Snapshot(camera_transform, camera_settings, projection)
    /\ prev_pan' =
          IF /\ mouse_buttons.left
             /\ ~mouse_buttons.middle
             /\ mouse_wheel_input = 0
             /\ CursorPath = "pan"
          THEN [some |-> TRUE, focus |-> pre.camera_settings.should_focus_at,
                cursor |-> window.cursor_position, motion |-> mouse_motion]
          ELSE NoPan
    /\ UNCHANGED <<camera_transform, camera_settings, projection>>

Next == OrbitSystem \/ ZoomSystem \/ DrawCursorSystem \/ FrameEnd

Spec == Init /\ [][Next]_vars

\* ----------------------------------------------------------------- claims

\* The system has run in this frame.
Ran(sys) == sys \notin pending

\* The step is a run of the system.
Runs(sys) == sys \in pending /\ sys \notin pending'

\* The camera sits at the focus point, orbit_distance back along its forward
\* direction.
PositionEq ==
    camera_transform.translation =
        Sub3(camera_settings.should_focus_at,
             Along(Forward(camera_transform), camera_settings.orbit_distance))

\* The squared distance from the camera to the focus point.
Distance2 ==
    Dot3(Sub3(camera_transform.translation, camera_settings.should_focus_at),
         Sub3(camera_transform.translation, camera_settings.should_focus_at))

\* The distance is orbit_distance to within 0.02 world units.
DistanceNear ==
    /\ (camera_settings.orbit_distance - 2) * (camera_settings.orbit_distance - 2) <= Distance2
    /\ Distance2 <= (camera_settings.orbit_distance + 2) * (camera_settings.orbit_distance + 2)

\* The returns draw_cursor takes before it draws or pans.
EarlyReturns == {"no_cursor", "no_ray", "no_hit", "no_ray2", "no_hit2"}

\* C1: once orbit has run with the middle button held, or draw_cursor has
\* panned, the camera is at focus - forward * orbit_distance, and so at
\* orbit_distance from the focus point.
C1_OrbitDistance ==
    (\/ Ran("orbit") /\ mouse_buttons.middle
     \/ Ran("draw_cursor") /\ CursorPath = "pan")
    => PositionEq /\ DistanceNear

\* C1's case: a pan alone has moved the camera.
C1_Witness ==
    /\ Ran("draw_cursor") /\ CursorPath = "pan" /\ ~Ran("orbit")
    /\ camera_transform.translation # pre.camera_transform.translation

\* C2, as the spec states it: after any controller has run, whatever the
\* buttons and inputs, the camera is at focus - forward * orbit_distance.
C2_TransformInvariant == pending # Systems => PositionEq

\* C3, as the spec states it: the pitch orbit leaves is strictly inside
\* (-PITCH_LIMIT, PITCH_LIMIT).
C3_PitchStrict ==
    /\ -PITCH_LIMIT < camera_transform.rotation.pitch
    /\ camera_transform.rotation.pitch < PITCH_LIMIT

\* C3, amended: the pitch is always within the closed interval
\* [-PITCH_LIMIT, PITCH_LIMIT], bounds included.
C3_PitchClosed ==
    /\ -PITCH_LIMIT <= camera_transform.rotation.pitch
    /\ camera_transform.rotation.pitch <= PITCH_LIMIT

\* C3's case: orbit has clamped the pitch to the upper bound.
C3_Witness ==
    /\ Ran("orbit") /\ mouse_buttons.middle
    /\ camera_transform.rotation.pitch = PITCH_LIMIT
    /\ pre.camera_transform.rotation.pitch + mouse_motion.y * camera_settings.pitch_speed
          > PITCH_LIMIT

\* C4: the orthographic scale and the field of view stay within their zoom
\* ranges, whatever is scrolled.
C4_ZoomClamp ==
    /\ camera_settings.orthographic_zoom_range.start <= projection.scale
    /\ projection.scale <= camera_settings.orthographic_zoom_range.end
    /\ camera_settings.perspective_zoom_range.start <= projection.fov
    /\ projection.fov <= camera_settings.perspective_zoom_range.end

\* C4's case: a scroll that makes the orthographic factor negative has been
\* clamped to the range's start.
C4_Witness ==
    /\ Ran("zoom") /\ projection.kind = "Orthographic"
    /\ 1000 - mouse_wheel_input * camera_settings.orthographic_zoom_speed < 0
    /\ projection.scale = camera_settings.orthographic_zoom_range.start

C6_PanRoundTrip ==
    (/\ prev_pan.some
     /\ Ran("draw_cursor") /\ CursorPath = "pan"
     /\ ~mouse_buttons.middle /\ mouse_wheel_input = 0
     /\ window.cursor_position = Some(Add2(prev_pan.cursor.value, prev_pan.motion))
     /\ mouse_motion = Vec2(-prev_pan.motion.x, -prev_pan.motion.y))
    => camera_settings.should_focus_at = prev_pan.focus

\* C7: a draw_cursor that returns early leaves the camera transform and the
\* focus point as they were and draws no circle.
C7_EarlyReturn ==
    [][Runs("draw_cursor") /\ CursorPath \in EarlyReturns =>
          UNCHANGED <<camera_transform, camera_settings, gizmos>>]_vars

\* C7's case: the left button held, the second ray has missed the ground.
C7_Witness ==
    /\ Ran("draw_cursor") /\ mouse_buttons.left /\ CursorPath = "no_hit2"

\* C8: zoom keeps the active variant, changes at most that variant's field,
\* nothing of any other variant, and neither the transform nor the settings.
C8_VariantIsolation ==
    [][Runs("zoom") =>
          /\ projection'.kind = projection.kind
          /\ projection.kind = "Orthographic" => projection'.fov = projection.fov
          /\ projection.kind = "Perspective" => projection'.scale = projection.scale
          /\ projection.kind \notin {"Orthographic", "Perspective"} => projection' = projection
          /\ UNCHANGED <<camera_transform, camera_settings>>]_vars

\* C8's case: zoom has changed the orthographic scale.
C8_Witness ==
    /\ Ran("zoom") /\ projection.kind = "Orthographic"
    /\ projection.scale # pre.projection.scale

\* What the frame leaves when draw_cursor, orbit and zoom run in that order.
InOrder(d) ==
    <<Orbit(d.camera_transform, d.camera_settings, mouse_buttons, mouse_motion),
      d.camera_settings,
      Zoom(pre.projection, pre.camera_settings, mouse_wheel_input)>>

\* C9: in whichever order the three systems ran, the frame leaves the camera
\* transform, the focus point and the projection that the order draw_cursor,
\* orbit, zoom leaves.
C9_OrderInsensitive ==
    pending = {} =>
        <<camera_transform, camera_settings, projection>> =
            InOrder(DrawCursor(pre.camera_transform, pre.camera_settings, {}, camera,
                               global_transform, window.cursor_position, mouse_buttons,
                               mouse_motion))

\* C9's case: a frame in which all three systems have run with both buttons
\* held and a scroll, the pan and the orbit both acting.
C9_Witness ==
    /\ pending = {} /\ mouse_buttons.left /\ mouse_buttons.middle
    /\ mouse_wheel_input # 0 /\ CursorPath = "pan"
    /\ projection # pre.projection

\* C10: orbit without the middle button leaves the camera transform, and
\* draw_cursor without the left button leaves the transform and the settings;
\* a draw_cursor that moves the focus point draws no circle.
C10_ButtonGated ==
    [][/\ Runs("orbit") /\ ~mouse_buttons.middle => UNCHANGED camera_transform
       /\ Runs("draw_cursor") /\ ~mouse_buttons.left =>
             UNCHANGED <<camera_transform, camera_settings>>
       /\ Runs("draw_cursor")
             /\ camera_settings'.should_focus_at # camera_settings.should_focus_at
             => UNCHANGED gizmos]_vars

\* C10's case: with neither button held, orbit has run and draw_cursor has
\* drawn its circle.
C10_Witness ==
    /\ Ran("orbit") /\ Ran("draw_cursor")
    /\ ~mouse_buttons.middle /\ ~mouse_buttons.left
    /\ CursorPath = "circle" /\ gizmos # {}

====
